---------------------------- MODULE Spec2Model ----------------------------
(***************************************************************************)
(* A model of HanoiTowers.cpp: the iterative Towers of Hanoi solver        *)
(* (InitTower, Move, Even, Odd, Hanoi) and the command line front end      *)
(* (DisksCount, std::stoi, std::abs).                                      *)
(*                                                                         *)
(* A Tower (std::list<int>) is a sequence whose head is front(), the top   *)
(* disk.  A HanoiTower (std::array<Tower, 3>) is a function 0..2 -> Tower. *)
(* Dump() prints only under _DEBUG and changes no state: it is left out.   *)
(***************************************************************************)
EXTENDS Integers, Sequences, FiniteSets, TLC

VARIABLES
  argc,             \* main's argc: 1 (no argument) or 2
  argv1,            \* argv[1] as a sequence of characters (<<>> when absent)
  notice,           \* what DisksCount printed: "none", "default", "reset", "large"
  main_disks_count, \* main's disks_count, the value DisksCount returned
  tower,            \* the HanoiTower of main, handed to Hanoi by reference
  disks_count,      \* Hanoi's local disks_count = tower[0].size()
  move,             \* the OddEvenFun Hanoi was instantiated with: "Odd" or "Even"
  previous,         \* Hanoi's local previous
  moves,            \* Hanoi's local moves
  pc,               \* control point
  attempt,          \* the candidate evaluated last: [src, dst, res]
  log               \* the successful moves so far, <<src, dst>> each

vars == <<argc, argv1, notice, main_disks_count, tower, disks_count, move,
          previous, moves, pc, attempt, log>>

---------------------------------------------------------------------------
(* Bounds of the model. *)

\* The solver is run for 1..MaxDisks disks.
MaxDisks == 10

\* Move is applied to every board of 1..MaxBoardDisks disks.
MaxBoardDisks == 4

\* The command line is given every integer of -MaxArg..MaxArg.
MaxArg == 30

---------------------------------------------------------------------------
(* int *)

INT_MAX == 2147483647

INT_MIN == -INT_MAX - 1

Pegs == 0..2

\* x & 1 of a two's complement int is 1 exactly for the odd ones.
And1(x) == x % 2

NoAttempt == [src |-> -1, dst |-> -1, res |-> "none"]

EmptyBoard == [p \in Pegs |-> <<>>]

---------------------------------------------------------------------------
(* InitTower: push_back(1), ..., push_back(disks_count). *)

InitTower(n) == [i \in 1..(IF n > 0 THEN n ELSE 0) |-> i]

---------------------------------------------------------------------------
(* Move(from, to): the return value and the two lists as it leaves them. *)

\* Move without the size rule (the last test always true).
MoveNoSizeRule(from, to) ==
  IF from = <<>>
  THEN [ok |-> FALSE, from |-> from, to |-> to]
  ELSE IF to # <<>> /\ (Head(from) % 2) = (Head(to) % 2)
  THEN [ok |-> FALSE, from |-> from, to |-> to]
  ELSE [ok |-> TRUE, from |-> Tail(from), to |-> <<Head(from)>> \o to]

\* Move that copies the top disk instead of splicing it over.
MoveCopies(from, to) ==
  IF from = <<>>
  THEN [ok |-> FALSE, from |-> from, to |-> to]
  ELSE IF to # <<>> /\ (Head(from) % 2) = (Head(to) % 2)
  THEN [ok |-> FALSE, from |-> from, to |-> to]
  ELSE IF to = <<>> \/ Head(from) < Head(to)
  THEN [ok |-> TRUE, from |-> from, to |-> <<Head(from)>> \o to]
  ELSE [ok |-> FALSE, from |-> from, to |-> to]

\* Move that takes the top disk off before testing and does not put it back.
MovePopsFirst(from, to) ==
  IF from = <<>>
  THEN [ok |-> FALSE, from |-> from, to |-> to]
  ELSE IF to # <<>> /\ (Head(from) % 2) = (Head(to) % 2)
  THEN [ok |-> FALSE, from |-> Tail(from), to |-> to]
  ELSE IF to = <<>> \/ Head(from) < Head(to)
  THEN [ok |-> TRUE, from |-> Tail(from), to |-> <<Head(from)>> \o to]
  ELSE [ok |-> FALSE, from |-> Tail(from), to |-> to]

\* Move without the parity rule.
MoveNoParityRule(from, to) ==
  IF from = <<>>
  THEN [ok |-> FALSE, from |-> from, to |-> to]
  ELSE IF to = <<>> \/ Head(from) < Head(to)
  THEN [ok |-> TRUE, from |-> Tail(from), to |-> <<Head(from)>> \o to]
  ELSE [ok |-> FALSE, from |-> from, to |-> to]

\* Move that splices the disk to the back of the destination.
MoveToBack(from, to) ==
  IF from = <<>>
  THEN [ok |-> FALSE, from |-> from, to |-> to]
  ELSE IF to # <<>> /\ (Head(from) % 2) = (Head(to) % 2)
  THEN [ok |-> FALSE, from |-> from, to |-> to]
  ELSE IF to = <<>> \/ Head(from) < Head(to)
  THEN [ok |-> TRUE, from |-> Tail(from), to |-> to \o <<Head(from)>>]
  ELSE [ok |-> FALSE, from |-> from, to |-> to]

Move(from, to) ==
  IF from = <<>>
  THEN [ok |-> FALSE, from |-> from, to |-> to]
  ELSE IF to # <<>> /\ And1(Head(from)) = 1 /\ And1(Head(to)) = 1
  THEN [ok |-> FALSE, from |-> from, to |-> to]
  ELSE IF to # <<>> /\ ~(And1(Head(from)) = 1) /\ ~(And1(Head(to)) = 1)
  THEN [ok |-> FALSE, from |-> from, to |-> to]
  ELSE IF to = <<>> \/ Head(from) < Head(to)
  THEN [ok |-> TRUE, from |-> Tail(from), to |-> <<Head(from)>> \o to]
  ELSE [ok |-> FALSE, from |-> from, to |-> to]

---------------------------------------------------------------------------
(* One candidate of Even, Odd or Hanoi:                                    *)
(*   if (previous != s && Move(tower[s], tower[d]))                        *)
(*   { moves++; previous = d; continue; }                                  *)
(* onTrue is where continue leads, onFalse the statement after the if.     *)

\* The candidate that remembers the peg the disk came from.
CandidatePreviousSource(s, d, onTrue, onFalse) ==
  IF previous # s
  THEN LET r == Move(tower[s], tower[d]) IN
       /\ tower' = [tower EXCEPT ![s] = r.from, ![d] = r.to]
       /\ attempt' = [src |-> s, dst |-> d,
                      res |-> IF r.ok THEN "moved" ELSE "failed"]
       /\ IF r.ok
          THEN /\ moves' = moves + 1
               /\ previous' = s
               /\ log' = Append(log, <<s, d>>)
               /\ pc' = onTrue
          ELSE /\ UNCHANGED <<moves, previous, log>>
               /\ pc' = onFalse
  ELSE /\ attempt' = [src |-> s, dst |-> d, res |-> "skipped"]
       /\ pc' = onFalse
       /\ UNCHANGED <<tower, moves, previous, log>>

\* The candidate without the test of previous.
CandidateNoGuard(s, d, onTrue, onFalse) ==
  LET r == Move(tower[s], tower[d]) IN
  /\ tower' = [tower EXCEPT ![s] = r.from, ![d] = r.to]
  /\ attempt' = [src |-> s, dst |-> d,
                 res |-> IF r.ok THEN "moved" ELSE "failed"]
  /\ IF r.ok
     THEN /\ moves' = moves + 1
          /\ previous' = d
          /\ log' = Append(log, <<s, d>>)
          /\ pc' = onTrue
     ELSE /\ UNCHANGED <<moves, previous, log>>
          /\ pc' = onFalse

Candidate(s, d, onTrue, onFalse) ==
  IF previous # s
  THEN LET r == Move(tower[s], tower[d]) IN
       /\ tower' = [tower EXCEPT ![s] = r.from, ![d] = r.to]
       /\ attempt' = [src |-> s, dst |-> d,
                      res |-> IF r.ok THEN "moved" ELSE "failed"]
       /\ IF r.ok
          THEN /\ moves' = moves + 1
               /\ previous' = d
               /\ log' = Append(log, <<s, d>>)
               /\ pc' = onTrue
          ELSE /\ UNCHANGED <<moves, previous, log>>
               /\ pc' = onFalse
  ELSE /\ attempt' = [src |-> s, dst |-> d, res |-> "skipped"]
       /\ pc' = onFalse
       /\ UNCHANGED <<tower, moves, previous, log>>

Frame == UNCHANGED <<argc, argv1, notice, main_disks_count, disks_count, move>>

---------------------------------------------------------------------------
(* main: HanoiTower tower = { InitTower(disks_count), {}, {} }. *)

MainInitTower ==
  /\ pc = "main"
  /\ tower' = [p \in Pegs |-> IF p = 0 THEN InitTower(main_disks_count) ELSE <<>>]
  /\ pc' = "Hanoi"
  /\ UNCHANGED <<argc, argv1, notice, main_disks_count, disks_count, move,
                 previous, moves, attempt, log>>

(* Hanoi(tower): the parity of tower[0].size() picks Odd or Even; then the *)
(* locals of Hanoi(tower, move) are initialised.                           *)

\* Hanoi(tower) with the two branches exchanged.
HanoiEntrySwapped ==
  /\ pc = "Hanoi"
  /\ move' = IF Len(tower[0]) % 2 = 1 THEN "Even" ELSE "Odd"
  /\ disks_count' = Len(tower[0])
  /\ moves' = 0
  /\ previous' = 2
  /\ pc' = "while"
  /\ UNCHANGED <<argc, argv1, notice, main_disks_count, tower, attempt, log>>

\* Hanoi with moves counted from 1.
HanoiEntryCountsFromOne ==
  /\ pc = "Hanoi"
  /\ move' = IF Len(tower[0]) % 2 = 1 THEN "Odd" ELSE "Even"
  /\ disks_count' = Len(tower[0])
  /\ moves' = 1
  /\ previous' = 2
  /\ pc' = "while"
  /\ UNCHANGED <<argc, argv1, notice, main_disks_count, tower, attempt, log>>

HanoiEntry ==
  /\ pc = "Hanoi"
  /\ move' = IF And1(Len(tower[0])) = 1 THEN "Odd" ELSE "Even"
  /\ disks_count' = Len(tower[0])
  /\ moves' = 0
  /\ previous' = 2
  /\ pc' = "while"
  /\ UNCHANGED <<argc, argv1, notice, main_disks_count, tower, attempt, log>>

(* while (tower[2].size() != disks_count): enter the body, which starts    *)
(* with the call move(tower, previous, moves), or leave the loop.          *)

HanoiWhile ==
  /\ pc = "while"
  /\ pc' = IF Len(tower[2]) # disks_count
           THEN (IF move = "Odd" THEN "Odd1" ELSE "Even1")
           ELSE "done"
  /\ UNCHANGED <<argc, argv1, notice, main_disks_count, tower, disks_count,
                 move, previous, moves, attempt, log>>

(* Even: the three candidates, then break (back in Hanoi, first candidate) *)

Even1 == pc = "Even1" /\ Candidate(0, 1, "Even1", "Even2") /\ Frame

\* The second candidate of Even followed by break.
Even2Breaks == pc = "Even2" /\ Candidate(0, 2, "Even1", "Hanoi1") /\ Frame

Even2 == pc = "Even2" /\ Candidate(0, 2, "Even1", "Even3") /\ Frame

Even3 == pc = "Even3" /\ Candidate(1, 2, "Even1", "Hanoi1") /\ Frame

(* Odd *)

Odd1 == pc = "Odd1" /\ Candidate(0, 2, "Odd1", "Odd2") /\ Frame

\* The second and third candidate of Odd tried in no fixed order.
Odd2Unordered ==
  /\ pc = "Odd2"
  /\ \/ Candidate(0, 1, "Odd1", "Odd3")
     \/ Candidate(1, 2, "Odd1", "Odd3")
  /\ Frame

Odd2 == pc = "Odd2" /\ Candidate(0, 1, "Odd1", "Odd3") /\ Frame

Odd3 == pc = "Odd3" /\ Candidate(1, 2, "Odd1", "Hanoi1") /\ Frame

(* Hanoi: the three candidates after move(); continue and the end of the   *)
(* body both lead to the loop condition.                                   *)

Hanoi1 == pc = "Hanoi1" /\ Candidate(2, 0, "while", "Hanoi2") /\ Frame

Hanoi2 == pc = "Hanoi2" /\ Candidate(2, 1, "while", "Hanoi3") /\ Frame

Hanoi3 == pc = "Hanoi3" /\ Candidate(1, 0, "while", "while") /\ Frame

---------------------------------------------------------------------------
(* The solver, from main's call of InitTower on. *)

Init ==
  /\ argc = 1
  /\ argv1 = <<>>
  /\ notice = "none"
  /\ main_disks_count \in 1..MaxDisks
  /\ tower = EmptyBoard
  /\ disks_count = 0
  /\ move = "none"
  /\ previous = 2
  /\ moves = 0
  /\ pc = "main"
  /\ attempt = NoAttempt
  /\ log = <<>>

Next ==
  \/ MainInitTower
  \/ HanoiEntry
  \/ HanoiWhile
  \/ Even1
  \/ Even2
  \/ Even3
  \/ Odd1
  \/ Odd2
  \/ Odd3
  \/ Hanoi1
  \/ Hanoi2
  \/ Hanoi3

Spec == Init /\ [][Next]_vars

\* The program is one thread that runs whenever it can take a step.
FairSpec == Spec /\ WF_vars(Next)

---------------------------------------------------------------------------
(* Move applied to an arbitrary board: every way of putting the disks      *)
(* 1..n on three pegs, each peg strictly increasing from the front, and    *)
(* every ordered pair of distinct pegs.                                    *)

RECURSIVE SortedSeq(_)
SortedSeq(S) ==
  IF S = {} THEN <<>>
  ELSE LET m == CHOOSE x \in S : \A y \in S : x <= y
       IN <<m>> \o SortedSeq(S \ {m})

Boards ==
  UNION { { [p \in Pegs |-> SortedSeq({k \in 1..n : f[k] = p})] :
            f \in [1..n -> Pegs] } : n \in 1..MaxBoardDisks }

InitMove ==
  /\ argc = 1
  /\ argv1 = <<>>
  /\ notice = "none"
  /\ main_disks_count = 0
  /\ tower \in Boards
  /\ disks_count = 0
  /\ move = "none"
  /\ previous = 2
  /\ moves = 0
  /\ pc = "call"
  /\ attempt = NoAttempt
  /\ log = <<>>

MoveCall ==
  /\ pc = "call"
  /\ \E s \in Pegs : \E d \in Pegs \ {s} :
       LET r == Move(tower[s], tower[d]) IN
       /\ tower' = [tower EXCEPT ![s] = r.from, ![d] = r.to]
       /\ attempt' = [src |-> s, dst |-> d,
                      res |-> IF r.ok THEN "moved" ELSE "failed"]
  /\ pc' = "ret"
  /\ UNCHANGED <<argc, argv1, notice, main_disks_count, disks_count, move,
                 previous, moves, log>>

NextMove == MoveCall

SpecMove == InitMove /\ [][NextMove]_vars

\* Both together: the solver's runs and Move on arbitrary boards.
InitAll == Init \/ InitMove

NextAll == Next \/ MoveCall

SpecAll == InitAll /\ [][NextAll]_vars

---------------------------------------------------------------------------
(* Properties of the solver. *)

SolverPCs == {"Hanoi", "while", "Even1", "Even2", "Even3", "Odd1", "Odd2", "Odd3",
              "Hanoi1", "Hanoi2", "Hanoi3", "done"}

CandidatePCs == {"Even1", "Even2", "Even3", "Odd1", "Odd2", "Odd3",
                 "Hanoi1", "Hanoi2", "Hanoi3"}

\* C1: for every disk count N >= 1 the solver terminates: every run, started
\* with all N disks on peg 0, eventually leaves the loop of Hanoi.
C1_Terminates == <>(pc = "done")

C1_Witness == pc = "done" /\ main_disks_count = 6 /\ Len(tower[2]) = 6

C3_FinalBoard ==
  pc = "done" =>
    /\ tower[0] = <<>>
    /\ tower[1] = <<>>
    /\ tower[2] = [i \in 1..main_disks_count |-> i]

C3_Witness == pc = "done" /\ main_disks_count = 4 /\ tower[2] = <<1, 2, 3, 4>>

StrictlyIncreasing(t) == \A i \in 1..(Len(t) - 1) : t[i] < t[i + 1]

\* C4: in every state of the driver each peg, read from the front, is
\* strictly increasing: no disk sits on a smaller one.
C4_PegsIncreasing ==
  pc \in SolverPCs => \A p \in Pegs : StrictlyIncreasing(tower[p])

C4_Witness ==
  /\ pc \in SolverPCs
  /\ attempt.res = "moved"
  /\ \A p \in Pegs : Len(tower[p]) >= 2

\* C5: in every state of the driver the three pegs together hold each disk
\* 1..N exactly once.
C5_Conservation ==
  pc \in SolverPCs =>
    /\ Len(tower[0]) + Len(tower[1]) + Len(tower[2]) = main_disks_count
    /\ \A k \in 1..main_disks_count :
         \E p \in Pegs : \E i \in 1..Len(tower[p]) : tower[p][i] = k

C5_Witness ==
  /\ pc \in SolverPCs
  /\ attempt.res = "moved"
  /\ main_disks_count = 5
  /\ \A p \in Pegs : tower[p] # <<>>

\* The textbook recursive solution: n disks from peg a to peg c, b the spare.
RECURSIVE HanoiRec(_, _, _, _)
HanoiRec(n, a, b, c) ==
  IF n = 0 THEN <<>>
  ELSE HanoiRec(n - 1, a, c, b) \o << <<a, c>> >> \o HanoiRec(n - 1, b, a, c)

Textbook == [n \in 1..MaxDisks |-> HanoiRec(n, 0, 1, 2)]

\* C6: the successful moves of the driver are, move for move, those of the
\* textbook recursive solution from peg 0 to peg 2: at every moment the moves
\* made so far are its first moves, and at exit they are all of it.
C6_TextbookMoves ==
  pc \in SolverPCs =>
    /\ Len(log) <= Len(Textbook[main_disks_count])
    /\ log = SubSeq(Textbook[main_disks_count], 1, Len(log))
    /\ pc = "done" => log = Textbook[main_disks_count]

C6_Witness ==
  /\ pc = "done"
  /\ main_disks_count = 3
  /\ log = << <<0, 2>>, <<0, 1>>, <<2, 1>>, <<0, 2>>, <<1, 0>>, <<1, 2>>, <<0, 2>> >>

---------------------------------------------------------------------------
(* Determinism.  The successor of a state is unique iff the next value of  *)
(* every variable is: each variable is given the values a step of the      *)
(* solver may assign it, and Next must allow one of them at most, and none *)
(* outside them.                                                           *)

TowerNext ==
  {tower, [p \in Pegs |-> IF p = 0 THEN InitTower(main_disks_count) ELSE <<>>]}
  \cup { [tower EXCEPT ![sd[1]] = Tail(@), ![sd[2]] = <<Head(tower[sd[1]])>> \o @] :
         sd \in {x \in Pegs \X Pegs : x[1] # x[2] /\ tower[x[1]] # <<>>} }

AttemptNext ==
  {attempt} \cup [src : Pegs, dst : Pegs, res : {"moved", "failed", "skipped"}]

LogNext == {log} \cup {Append(log, sd) : sd \in Pegs \X Pegs}

\* C7: the solver is deterministic: every reachable state of the driver has
\* at most one successor.
C7_Deterministic ==
  /\ \A v \in TowerNext :
       ENABLED (Next /\ tower' = v) => ~ENABLED (Next /\ tower' # v)
  /\ ~ENABLED (Next /\ tower' \notin TowerNext)
  /\ \A v \in SolverPCs :
       ENABLED (Next /\ pc' = v) => ~ENABLED (Next /\ pc' # v)
  /\ ~ENABLED (Next /\ pc' \notin SolverPCs)
  /\ \A v \in Pegs :
       ENABLED (Next /\ previous' = v) => ~ENABLED (Next /\ previous' # v)
  /\ ~ENABLED (Next /\ previous' \notin Pegs)
  /\ \A v \in {0, moves, moves + 1} :
       ENABLED (Next /\ moves' = v) => ~ENABLED (Next /\ moves' # v)
  /\ ~ENABLED (Next /\ moves' \notin {0, moves, moves + 1})
  /\ \A v \in AttemptNext :
       ENABLED (Next /\ attempt' = v) => ~ENABLED (Next /\ attempt' # v)
  /\ ~ENABLED (Next /\ attempt' \notin AttemptNext)
  /\ \A v \in LogNext :
       ENABLED (Next /\ log' = v) => ~ENABLED (Next /\ log' # v)
  /\ ~ENABLED (Next /\ log' \notin LogNext)
  /\ \A v \in {disks_count, Len(tower[0])} :
       ENABLED (Next /\ disks_count' = v) => ~ENABLED (Next /\ disks_count' # v)
  /\ ~ENABLED (Next /\ disks_count' \notin {disks_count, Len(tower[0])})
  /\ \A v \in {move, "Odd", "Even"} :
       ENABLED (Next /\ move' = v) => ~ENABLED (Next /\ move' # v)
  /\ ~ENABLED (Next /\ move' \notin {move, "Odd", "Even"})
  /\ ~ENABLED (Next /\ <<argc, argv1, notice, main_disks_count>>'
                        # <<argc, argv1, notice, main_disks_count>>)

C7_Witness ==
  /\ pc = "Hanoi2"
  /\ main_disks_count = 3
  /\ ENABLED (Next /\ attempt'.res = "moved")

---------------------------------------------------------------------------
(* Properties of Move. *)

Legal(from, to) ==
  /\ from # <<>>
  /\ \/ to = <<>>
     \/ /\ Head(from) < Head(to)
        /\ (Head(from) % 2) # (Head(to) % 2)

\* C9: Move(src, dst) succeeds iff src is non-empty and dst is empty or has a
\* larger top of the other parity; on success the top disk of src, and
\* nothing else, goes from src to the top of dst.
C9_MoveContract ==
  [][ (pc = "call" /\ pc' = "ret") =>
        LET s == attempt'.src
            d == attempt'.dst
        IN /\ (attempt'.res = "moved") <=> Legal(tower[s], tower[d])
           /\ attempt'.res = "moved" =>
                /\ tower'[s] = Tail(tower[s])
                /\ tower'[d] = <<Head(tower[s])>> \o tower[d]
                /\ \A p \in Pegs \ {s, d} : tower'[p] = tower[p] ]_vars

C9_Witness ==
  /\ pc = "ret"
  /\ attempt.res = "moved"
  /\ Len(tower[attempt.dst]) >= 2
  /\ tower[attempt.src] # <<>>

\* C10: a failed move attempt changes nothing: when Move returns false both
\* pegs are as they were, and the driver leaves the third peg, previous and
\* the move counter alone; a candidate skipped by the guard changes no state.
C10_FailedAttemptFrame ==
  [][ (pc \in CandidatePCs \cup {"call"} /\ attempt'.res \in {"failed", "skipped"}) =>
        /\ tower' = tower
        /\ previous' = previous
        /\ moves' = moves
        /\ log' = log ]_vars

C10_Witness ==
  /\ pc \in CandidatePCs
  /\ attempt.res = "failed"
  /\ tower[attempt.src] # <<>>
  /\ tower[attempt.dst] # <<>>

---------------------------------------------------------------------------
(* The command line: DisksCount(argc, argv).                               *)

DigitChars == <<"0", "1", "2", "3", "4", "5", "6", "7", "8", "9">>

IsDigit(c) == \E i \in 1..10 : DigitChars[i] = c

DigitVal(c) == (CHOOSE i \in 1..10 : DigitChars[i] = c) - 1

\* std::isspace
IsSpace(c) == c \in {" ", "\t", "\n"}

RECURSIVE SkipSpace(_)
SkipSpace(str) ==
  IF str # <<>> /\ IsSpace(Head(str)) THEN SkipSpace(Tail(str)) ELSE str

RECURSIVE DigitPrefix(_)
DigitPrefix(str) ==
  IF str # <<>> /\ IsDigit(Head(str))
  THEN <<Head(str)>> \o DigitPrefix(Tail(str))
  ELSE <<>>

(* The digits' value, gathered as strtol does: negated, so that INT_MIN    *)
(* has room, and given up ("range") where the next digit would leave       *)
(* lowest..0.                                                              *)
RECURSIVE DigitsValue(_, _, _)
DigitsValue(acc, digits, lowest) ==
  IF digits = <<>> THEN [range |-> FALSE, negated |-> acc]
  ELSE LET digit == DigitVal(Head(digits))
           cutoff == -((-(lowest + 1)) \div 10)
           cutlim == ((-(lowest + 1)) % 10) + 1
       IN IF acc < cutoff \/ (acc = cutoff /\ digit > cutlim)
          THEN [range |-> TRUE, negated |-> 0]
          ELSE DigitsValue(10 * acc - digit, Tail(digits), lowest)

(* std::stoi(str), base 10: white space, an optional sign, then digits up  *)
(* to the first character that is none; what follows is ignored.  No digit *)
(* at all throws std::invalid_argument, a value no int holds throws        *)
(* std::out_of_range.                                                      *)
stoi(str) ==
  LET t == SkipSpace(str)
      signed == t # <<>> /\ Head(t) \in {"+", "-"}
      negative == t # <<>> /\ Head(t) = "-"
      digits == DigitPrefix(IF signed THEN Tail(t) ELSE t)
      got == DigitsValue(0, digits, IF negative THEN INT_MIN ELSE -INT_MAX)
  IN IF digits = <<>>
     THEN [throws |-> "invalid_argument", value |-> 0]
     ELSE IF got.range
     THEN [throws |-> "out_of_range", value |-> 0]
     ELSE [throws |-> "none",
           value |-> IF negative THEN got.negated ELSE -got.negated]

(* std::abs(int): the values a build may come to hold.  abs(INT_MIN) has   *)
(* no int to return and is undefined: the negation wraps to INT_MIN.       *)
abs(x) == IF x = INT_MIN THEN {INT_MIN} ELSE {IF x < 0 THEN -x ELSE x}

(* What a comparison of abs(x) with a bound may yield: after the undefined *)
(* abs(INT_MIN) a build may compare the wrapped value, or have folded the  *)
(* test on the assumption that abs() is never negative.                    *)
AfterAbs(x, test) == IF x = INT_MIN THEN {TRUE, FALSE} ELSE {test}

DefaultDisks == 3

LargeDisks == 25

DisksCount ==
  /\ pc = "DisksCount"
  /\ IF argc < 2
     THEN /\ notice' = "default"
          /\ main_disks_count' = DefaultDisks
          /\ pc' = "returned"
     ELSE LET parsed == stoi(argv1) IN
          IF parsed.throws # "none"
          THEN \* nothing catches the exception: std::terminate
               /\ pc' = "terminate"
               /\ UNCHANGED <<notice, main_disks_count>>
          ELSE \E a \in abs(parsed.value) :
               \E less \in AfterAbs(parsed.value, a < 1) :
               \E large \in AfterAbs(parsed.value, a > LargeDisks) :
                 /\ main_disks_count' = IF less THEN DefaultDisks ELSE a
                 /\ notice' = IF less THEN "reset"
                              ELSE IF large THEN "large" ELSE "none"
                 /\ pc' = "returned"
  /\ UNCHANGED <<argc, argv1, tower, disks_count, move, previous, moves,
                 attempt, log>>

\* The decimal digits of -n, for n <= 0.
RECURSIVE DecDigits(_)
DecDigits(n) ==
  LET last == (10 - (n % 10)) % 10
  IN IF n > -10 THEN <<DigitChars[last + 1]>>
     ELSE DecDigits((n + last) \div 10) \o <<DigitChars[last + 1]>>

\* The decimal text of an int.
Decimal(v) == IF v < 0 THEN <<"-">> \o DecDigits(v) ELSE DecDigits(-v)

\* The arguments given: the small integers and the ends of int,
ArgValues ==
  (-MaxArg..MaxArg) \cup {INT_MIN, INT_MIN + 1, INT_MAX - 1, INT_MAX}

\* and some that are no int, or more than one.
OtherArgs ==
  { <<"+", "5">>, <<" ", "7">>, <<"5", "x">>, <<"0", "0", "7">>, <<"-", "0">>,
    <<"a", "b", "c">>, <<"-">>, <<"x", "5">>, <<>>,
    <<"2", "1", "4", "7", "4", "8", "3", "6", "4", "8">>,
    <<"-", "2", "1", "4", "7", "4", "8", "3", "6", "4", "9">>,
    <<"9", "9", "9", "9", "9", "9", "9", "9", "9", "9", "9", "9">> }

ArgStrings == {Decimal(v) : v \in ArgValues} \cup OtherArgs

InitCLI ==
  /\ argc \in {1, 2}
  /\ argv1 \in (IF argc = 1 THEN {<<>>} ELSE ArgStrings)
  /\ notice = "none"
  /\ main_disks_count = 0
  /\ tower = EmptyBoard
  /\ disks_count = 0
  /\ move = "none"
  /\ previous = 2
  /\ moves = 0
  /\ pc = "DisksCount"
  /\ attempt = NoAttempt
  /\ log = <<>>

NextCLI == DisksCount

SpecCLI == InitCLI /\ [][NextCLI]_vars

\* r = |v|, without computing -v, which no int holds for INT_MIN.
IsAbsOf(r, v) == r >= 0 /\ ((v >= 0 /\ r = v) \/ (v < 0 /\ r + v = 0))

\* C8: for every argument v that parses as a 32-bit int, DisksCount returns
\* |v| when |v| >= 1 (with a warning only when |v| > 25) and 3 when v = 0;
\* without an argument it returns 3; so what it returns is always >= 1.
C8_DisksCountAbs ==
  /\ \A v \in ArgValues :
       (v \in INT_MIN..INT_MAX /\ argc = 2 /\ argv1 = Decimal(v) /\ pc # "DisksCount") =>
         /\ pc = "returned"
         /\ IF v = 0 THEN main_disks_count = 3 ELSE IsAbsOf(main_disks_count, v)
  /\ (argc = 1 /\ pc # "DisksCount") => (pc = "returned" /\ main_disks_count = 3)
  /\ pc = "returned" => main_disks_count >= 1

---------------------------------------------------------------------------
(* Properties of previous and of the order of the candidates. *)

\* The states in which the locals of Hanoi exist.
HanoiPCs == SolverPCs \ {"Hanoi"}

\* A step that moves a disk.
MoveStep == log' # log

\* C11: previous is 2 before the first move and after every successful move
\* the destination of that move; the peg it names is then non-empty and its
\* top is the disk just moved.
C11_PreviousIsLastDestination ==
  /\ [](pc \in HanoiPCs =>
          IF log = <<>> THEN previous = 2
          ELSE /\ previous = log[Len(log)][2]
               /\ tower[previous] # <<>>)
  /\ [][MoveStep =>
          /\ previous' = attempt'.dst
          /\ log' = Append(log, <<attempt'.src, attempt'.dst>>)
          /\ tower[attempt'.src] # <<>>
          /\ Head(tower'[previous']) = Head(tower[attempt'.src])]_vars

C11_Witness ==
  /\ pc \in HanoiPCs
  /\ Len(log) >= 2
  /\ previous = 0
  /\ attempt = [src |-> 2, dst |-> 0, res |-> "moved"]

\* C12: a candidate is attempted only when previous is not its source, so no
\* successful move starts from the peg the move before it ended on: no disk
\* is moved twice in a row.
C12_UndoGuard ==
  /\ [](pc \in HanoiPCs =>
          \A k \in 2..Len(log) : log[k][1] # log[k - 1][2])
  /\ [][(pc \in CandidatePCs /\ attempt'.res \in {"moved", "failed"}) =>
          previous # attempt'.src]_vars
  /\ [][(MoveStep /\ log # <<>>) =>
          Head(tower[attempt'.src]) # Head(tower[previous])]_vars

C12_Witness ==
  /\ pc \in CandidatePCs
  /\ attempt.res = "skipped"
  /\ tower[attempt.src] # <<>>
  /\ Len(log) >= 2

---------------------------------------------------------------------------
(* The moves open to the driver. *)

\* The ordered pairs of distinct pegs, the source not the peg previous
\* names, for which Move would succeed.
LegalMoves ==
  {sd \in Pegs \X Pegs :
     /\ sd[1] # sd[2]
     /\ sd[1] # previous
     /\ Move(tower[sd[1]], tower[sd[2]]).ok}

\* Reached by the driver after a move at least, and not the terminal one.
Intermediate ==
  /\ pc \in HanoiPCs
  /\ log # <<>>
  /\ Len(tower[2]) # disks_count

\* C13 as stated: at every intermediate configuration exactly one ordered
\* pair (src, dst) of distinct pegs with src # previous is a legal move.
C13_ExactlyOneLegalMove == Intermediate => Cardinality(LegalMoves) = 1

\* C13, amended: at every intermediate configuration there is a legal
\* non-undoing move and there are two at most; there is exactly one when no
\* peg is empty, and two are the two moves of disk 1 to either other peg.
C13_OneOrTwoLegalMoves ==
  Intermediate =>
    /\ Cardinality(LegalMoves) \in {1, 2}
    /\ (\A p \in Pegs : tower[p] # <<>>) => Cardinality(LegalMoves) = 1
    /\ Cardinality(LegalMoves) = 2 =>
         \E s \in Pegs :
           /\ tower[s] # <<>>
           /\ Head(tower[s]) = 1
           /\ LegalMoves = {<<s, d>> : d \in Pegs \ {s}}

C13_Witness ==
  /\ Intermediate
  /\ main_disks_count = 4
  /\ Cardinality(LegalMoves) = 2
  /\ Len(log) > 2

---------------------------------------------------------------------------
(* Progress of the driver. *)

\* The candidates of Even and of Odd, and those of Hanoi, in their order.
Forward(m) ==
  IF m = "Odd" THEN << <<0, 2>>, <<0, 1>>, <<1, 2>> >>
  ELSE << <<0, 1>>, <<0, 2>>, <<1, 2>> >>

Backward == << <<2, 0>>, <<2, 1>>, <<1, 0>> >>

\* The candidate passes its guard and Move succeeds for it.
Succeeds(sd) == previous # sd[1] /\ Move(tower[sd[1]], tower[sd[2]]).ok

\* No forward and no backward candidate succeeds.
Stuck ==
  /\ \A i \in 1..3 : ~Succeeds(Forward(move)[i])
  /\ \A i \in 1..3 : ~Succeeds(Backward[i])

\* The last candidate of Hanoi fails: the body of the loop ends without
\* continue.
FallsThrough == pc = "Hanoi3" /\ pc' = "while" /\ ~MoveStep

\* C14: the driver never gets stuck: no state is reachable in which peg 2
\* holds fewer than N disks and no guarded candidate succeeds, and the body
\* of the loop is left without a move only with all N disks on peg 2: every
\* iteration entered before that moves a disk.
C14_NeverStuck ==
  /\ []((pc \in HanoiPCs /\ Len(tower[2]) # disks_count) => ~Stuck)
  /\ [][FallsThrough => Len(tower[2]) = disks_count]_vars

C14_Witness ==
  /\ pc = "Hanoi3"
  /\ Len(tower[2]) # disks_count
  /\ main_disks_count = 3
  /\ ~Succeeds(<<2, 0>>)
  /\ ~Succeeds(<<2, 1>>)
  /\ Succeeds(<<1, 0>>)

\* C15: the first successful move of a run is peg 0 -> peg 2 when N is odd
\* and peg 0 -> peg 1 when N is even.
C15_FirstMove ==
  log # <<>> =>
    log[1] = IF main_disks_count % 2 = 1 THEN <<0, 2>> ELSE <<0, 1>>

C15_Witness ==
  /\ Len(log) = 1
  /\ main_disks_count = 4
  /\ tower[1] = <<1>>

\* A backward move: one of (2->0), (2->1), (1->0).
BackwardStep == MoveStep /\ attempt'.src > attempt'.dst

\* C16: forward moves go first: a backward move is made only by a candidate
\* of Hanoi, in a state where none of (0->2), (0->1), (1->2) passes the
\* guard and succeeds, and after it the loop starts over with the forward
\* candidates before another backward candidate is tried.
C16_ForwardFirst ==
  /\ [][BackwardStep =>
          /\ pc \in {"Hanoi1", "Hanoi2", "Hanoi3"}
          /\ \A i \in 1..3 : ~Succeeds(Forward(move)[i])
          /\ \A sd \in {<<0, 2>>, <<0, 1>>, <<1, 2>>} : ~Succeeds(sd)
          /\ pc' = "while"
          /\ Len(tower'[2]) # disks_count]_vars
  /\ [][(pc' \in {"Hanoi1", "Hanoi2", "Hanoi3"} /\ pc' # pc) =>
          /\ ~MoveStep
          /\ pc \in {"Even3", "Odd3", "Hanoi1", "Hanoi2"}]_vars

C16_Witness ==
  /\ pc = "while"
  /\ attempt = [src |-> 2, dst |-> 1, res |-> "moved"]
  /\ Len(log) > 3

---------------------------------------------------------------------------
(* Hanoi(HanoiTower&) called on an arbitrary board of valid pegs.  main    *)
(* only ever hands it InitTower(n) on peg 0; the function itself takes any *)
(* HanoiTower.                                                             *)

InitHanoi ==
  /\ argc = 1
  /\ argv1 = <<>>
  /\ notice = "none"
  /\ main_disks_count = 0
  /\ tower \in Boards
  /\ disks_count = 0
  /\ move = "none"
  /\ previous = 2
  /\ moves = 0
  /\ pc = "Hanoi"
  /\ attempt = NoAttempt
  /\ log = <<>>

NextHanoi ==
  \/ HanoiEntry
  \/ HanoiWhile
  \/ Even1
  \/ Even2
  \/ Even3
  \/ Odd1
  \/ Odd2
  \/ Odd3
  \/ Hanoi1
  \/ Hanoi2
  \/ Hanoi3

SpecHanoi == InitHanoi /\ [][NextHanoi]_vars

---------------------------------------------------------------------------
(* After the last move, and the parity of neighbours. *)

\* Peg 2 holds all N disks.
Full == pc \in HanoiPCs /\ Len(tower[2]) = main_disks_count

\* C18: once peg 2 holds all N disks no further move is made: previous is 2
\* there, every candidate still tried before the loop condition is read fails
\* or is skipped, and the board and the move counter stay as they are until
\* the exit.
C18_NoMoveOnceFull ==
  /\ [](Full => previous = 2 /\ LegalMoves = {})
  /\ [][Full =>
          /\ tower' = tower
          /\ moves' = moves
          /\ previous' = previous
          /\ log' = log
          /\ (pc \in CandidatePCs /\ pc' # pc) =>
               attempt'.res \in {"failed", "skipped"}]_vars

C18_Witness ==
  /\ Full
  /\ pc = "Hanoi3"
  /\ main_disks_count = 3
  /\ attempt = [src |-> 2, dst |-> 1, res |-> "skipped"]

\* C19: in every reachable state any two disks that lie one on the other
\* have opposite parity.
C19_NeighboursDifferInParity ==
  pc \in SolverPCs =>
    \A p \in Pegs : \A i \in 1..(Len(tower[p]) - 1) :
      (tower[p][i] % 2) # (tower[p][i + 1] % 2)

C19_Witness ==
  /\ pc \in HanoiPCs
  /\ attempt.res = "moved"
  /\ main_disks_count = 5
  /\ Len(tower[attempt.dst]) >= 3
  /\ Len(tower[attempt.src]) >= 1

===========================================================================
